---- MODULE Spec2Model ----
(***************************************************************************)
(* Model of vispy.visuals.visual.Visual: the GL state configuration        *)
(* (_gl_state), the shader hook registry (_hooks) bound into the           *)
(* program (_program), and the filter attachment set (_filters).           *)
(*                                                                         *)
(* Python exceptions are modelled as the `kind` of the result of a call;   *)
(* the spec's error taxonomy maps onto them as                             *)
(*   InvalidArgument = TypeError / AssertionError                          *)
(*   NotSupported    = NotImplementedError                                 *)
(*   NotFound        = KeyError                                            *)
(***************************************************************************)
EXTENDS Integers, Sequences, FiniteSets, TLC

\* ------------------------------------------------------------ input sets
\* Bounds of the exploration.
MaxArgs == 2        \* longest positional-argument list tried on a call
MaxChains == 2      \* StatementList objects allocated in one run
MaxAttach == 2      \* completed _attach callbacks per filter and visual

\* GL state option names ('preset' is the reserved key) and option values.
PresetKey == "preset"
Keys == {"preset", "blend", "depth_test"}
Vals == {"None", "a"}

\* Values tried for the *shader* and *name* arguments of _get_hook.
\* "geom" is a shader other than the two documented ones, "mid" a name
\* outside ('pre', 'post').
Shaders == {"vert", "frag", "geom"}
HookNames == {"pre", "post"}
Names == HookNames \cup {"mid"}

\* Filter instances (external collaborators).
Filters == {"f1", "f2"}

\* Observers of the update event (external collaborators).
Observers == {"o1", "o2", "o3"}

\* Values tried for the *mode* and *axis* arguments of bounds.
Modes == {"visual", "data", "mouse"}
Axes == {0, 1, 2}

\* Positional argument lists and keyword-argument dicts a caller may pass.
ArgSeqs == UNION {[1..n -> Vals] : n \in 0..MaxArgs}
KwMaps == UNION {[S -> Vals] : S \in SUBSET Keys}

\* The spec's error taxonomy in terms of the Python exceptions raised.
InvalidArgument == {"TypeError", "AssertionError"}
NotSupported == "NotImplementedError"
NotFound == "KeyError"

\* ------------------------------------------------------------------ state
VARIABLES
    visuals,    \* the Visual instances that have been constructed
    visible,    \* visible[v]  : self._visible
    gl_state,   \* gl_state[v] : self._gl_state, a dict option name -> value
    filters,    \* filters[v]  : self._filters, a set of Filter instances
    hooks,      \* hooks[v]    : self._hooks, a dict (shader, name) -> chain id
    program,    \* program[v]  : the _program attribute and its vert/frag slots
    chains,     \* chains[id]  : contents of the StatementList with identity id
    nAttach,    \* nAttach[v][f] : _attach callbacks of f on v that returned
    nDetach,    \* nDetach[v][f] : _detach callbacks of f on v that returned
    dupAttach,  \* dupAttach[v][f] : attaches of f made while f was a member
    lastOp,     \* lastOp[v][f] : f's last successful operation on v
    observers,  \* observers[v] : callbacks connected to events.update, in order
    delivered,  \* delivered[v] : observers run by the last emission on v
    gloo,       \* gloo[v] : arguments of the set_state calls of v's last draw
    ret         \* the last call and its outcome

vars == <<visuals, visible, gl_state, filters, hooks, program, chains,
          nAttach, nDetach, dupAttach, lastOp, observers, delivered, gloo,
          ret>>

\* ---------------------------------------------------------------- helpers
EmptyDict == [k \in {} |-> 0]

\* dict.update(other): keys of other overwrite, the rest are kept.
DictUpdate(d, other) ==
    [k \in (DOMAIN d) \cup (DOMAIN other) |->
        IF k \in DOMAIN other THEN other[k] ELSE d[k]]

\* d[key] = value on a dict.
DictSet(d, key, value) ==
    [k \in (DOMAIN d) \cup {key} |-> IF k = key THEN value ELSE d[k]]

\* A dict without one key.
DictWithout(d, key) == [k \in (DOMAIN d) \ {key} |-> d[k]]

\* A Visual with no _program attribute, and a fresh program whose vert and
\* frag template slots are unbound (0 = no chain bound).
NoSlots == [n \in HookNames |-> 0]
NoProgram == [present |-> FALSE, vert |-> NoSlots, frag |-> NoSlots]
NewProgram == [present |-> TRUE, vert |-> NoSlots, frag |-> NoSlots]

\* The record of a call: the operation, the instance, the outcome ("ok" or
\* the exception raised) and, where the operation has them, the arguments,
\* the value returned, what the exception carries, and the GL state before.
Result(op, v, kind) ==
    [op |-> op, v |-> v, kind |-> kind,
     key |-> <<>>, chain |-> 0, info |-> <<>>, filter |-> "",
     value |-> <<>>, observer |-> "",
     args |-> <<>>, kwargs |-> EmptyDict, before |-> EmptyDict]

\* ------------------------------------------------------------------- Init
\* Visual.__init__ for each instance.
InitOf(V) ==
    /\ visuals = V
    /\ visible = [v \in V |-> TRUE]
    /\ gl_state = [v \in V |-> [k \in {PresetKey} |-> "None"]]
    /\ filters = [v \in V |-> {}]
    /\ hooks = [v \in V |-> EmptyDict]
    /\ program = [v \in V |-> NoProgram]
    /\ chains = <<>>
    /\ nAttach = [v \in V |-> [f \in Filters |-> 0]]
    /\ nDetach = [v \in V |-> [f \in Filters |-> 0]]
    /\ dupAttach = [v \in V |-> [f \in Filters |-> 0]]
    /\ lastOp = [v \in V |-> [f \in Filters |-> "none"]]
    /\ observers = [v \in V |-> <<>>]
    /\ delivered = [v \in V |-> <<>>]
    /\ gloo = [v \in V |-> <<>>]
    /\ ret = Result("__init__", "", "ok")

Init == InitOf({"v1"})

\* ------------------------------------------------------------ GL state
\* A faulty set_gl_state that merges into the old dict instead of replacing
\* it.
set_gl_state_merging(g, args, kw) ==
    IF Len(args) > 1 \/ (Len(args) = 1 /\ PresetKey \in DOMAIN kw)
    THEN [kind |-> "TypeError", gl |-> g]
    ELSE LET preset == IF Len(args) = 1 THEN args[1]
                       ELSE IF PresetKey \in DOMAIN kw THEN kw[PresetKey]
                       ELSE "None"
         IN  [kind |-> "ok",
              gl |-> DictSet(DictUpdate(g, kw), PresetKey, preset)]

\* A faulty set_gl_state that stores the preset only when one was given.
set_gl_state_given_only(g, args, kw) ==
    IF Len(args) > 1 \/ (Len(args) = 1 /\ PresetKey \in DOMAIN kw)
    THEN [kind |-> "TypeError", gl |-> g]
    ELSE LET preset == IF Len(args) = 1 THEN args[1]
                       ELSE IF PresetKey \in DOMAIN kw THEN kw[PresetKey]
                       ELSE "None"
             kwargs == DictWithout(kw, PresetKey)
         IN  [kind |-> "ok",
              gl |-> IF preset = "None" THEN kwargs
                     ELSE DictSet(kwargs, PresetKey, preset)]

\* set_gl_state(*args, **kw) on a Visual whose dict is g. Binding the call to
\* the signature (self, preset=None, **kwargs): more than one positional
\* value, or preset given both positionally and by keyword, is a TypeError
\* raised by the call itself, before the body; a keyword 'preset' binds the
\* preset parameter and never reaches kwargs. The body replaces the dict by
\* kwargs and stores the preset in it.
set_gl_state(g, args, kw) ==
    IF Len(args) > 1 \/ (Len(args) = 1 /\ PresetKey \in DOMAIN kw)
    THEN [kind |-> "TypeError", gl |-> g]
    ELSE LET preset == IF Len(args) = 1 THEN args[1]
                       ELSE IF PresetKey \in DOMAIN kw THEN kw[PresetKey]
                       ELSE "None"
             kwargs == DictWithout(kw, PresetKey)
         IN  [kind |-> "ok", gl |-> DictSet(kwargs, PresetKey, preset)]

\* A faulty set_gl_state that writes a dict held by the class, so that every
\* Visual sees the new render state.
SetGlState_shared(v, args, kw) ==
    LET r == set_gl_state(gl_state[v], args, kw) IN
    /\ gl_state' = [w \in visuals |-> r.gl]
    /\ ret' = [Result("set_gl_state", v, r.kind) EXCEPT
                   !.args = args, !.kwargs = kw, !.before = gl_state[v]]
    /\ UNCHANGED <<observers, delivered, gloo, visuals, visible, filters, hooks, program, chains,
                   nAttach, nDetach, dupAttach, lastOp>>

SetGlState(v, args, kw) ==
    LET r == set_gl_state(gl_state[v], args, kw) IN
    /\ gl_state' = [gl_state EXCEPT ![v] = r.gl]
    /\ ret' = [Result("set_gl_state", v, r.kind) EXCEPT
                   !.args = args, !.kwargs = kw, !.before = gl_state[v]]
    /\ UNCHANGED <<observers, delivered, gloo, visuals, visible, filters, hooks, program, chains,
                   nAttach, nDetach, dupAttach, lastOp>>

\* A faulty update_gl_state that checks the argument count only after it has
\* applied the preset and the keyword arguments.
update_gl_state_late_check(g, args, kwargs) ==
    LET g1 == IF Len(args) >= 1 THEN DictSet(g, PresetKey, args[1]) ELSE g
        g2 == DictUpdate(g1, kwargs)
    IN  IF Len(args) > 1 THEN [kind |-> "TypeError", gl |-> g2]
        ELSE [kind |-> "ok", gl |-> g2]

\* A faulty update_gl_state that replaces the dict by the keyword arguments
\* (as set_gl_state does) instead of merging them.
update_gl_state_replacing(g, args, kwargs) ==
    IF Len(args) = 1
    THEN [kind |-> "ok", gl |-> DictSet(kwargs, PresetKey, args[1])]
    ELSE IF Len(args) # 0
    THEN [kind |-> "TypeError", gl |-> g]
    ELSE [kind |-> "ok",
          gl |-> IF PresetKey \in DOMAIN kwargs THEN kwargs
                 ELSE DictSet(kwargs, PresetKey, g[PresetKey])]

\* update_gl_state(*args, **kwargs) on the dict g.
update_gl_state(g, args, kwargs) ==
    IF Len(args) = 1
    THEN [kind |-> "ok",
          gl |-> DictUpdate(DictSet(g, PresetKey, args[1]), kwargs)]
    ELSE IF Len(args) # 0
    THEN [kind |-> "TypeError", gl |-> g]
    ELSE [kind |-> "ok", gl |-> DictUpdate(g, kwargs)]

UpdateGlState(v, args, kwargs) ==
    LET r == update_gl_state(gl_state[v], args, kwargs) IN
    /\ gl_state' = [gl_state EXCEPT ![v] = r.gl]
    /\ ret' = [Result("update_gl_state", v, r.kind) EXCEPT
                   !.args = args, !.kwargs = kwargs, !.before = gl_state[v]]
    /\ UNCHANGED <<observers, delivered, gloo, visuals, visible, filters, hooks, program, chains,
                   nAttach, nDetach, dupAttach, lastOp>>

\* ------------------------------------------------------- hook registry
\* The attribute _program becomes available (a subclass builds its program);
\* the base class never assigns it, _get_hook only probes for it.
MakeProgram(v) ==
    /\ ~program[v].present
    /\ program' = [program EXCEPT ![v] = NewProgram]
    /\ ret' = Result("_program", v, "ok")
    /\ UNCHANGED <<observers, delivered, gloo, visuals, visible, gl_state, filters, hooks, chains,
                   nAttach, nDetach, dupAttach, lastOp>>

\* prog.vert[name] = hook / prog.frag[name] = hook, for the two shaders the
\* code binds; any other shader binds nothing.
Bind(p, shader, name, hook) ==
    IF shader = "vert" THEN [p EXCEPT !.vert = DictSet(@, name, hook)]
    ELSE IF shader = "frag" THEN [p EXCEPT !.frag = DictSet(@, name, hook)]
    ELSE p

\* A faulty _get_hook without the lookup of an existing chain: every call
\* builds and records a new one.
get_hook_always_new(h, p, c, shader, name) ==
    LET key == <<shader, name>>
        same == [hooks |-> h, program |-> p, chains |-> c]
    IN
    IF name \notin HookNames
    THEN [kind |-> "AssertionError", chain |-> 0, info |-> <<>>] @@ same
    ELSE IF ~p.present
    THEN [kind |-> "NotImplementedError", chain |-> 0, info |-> key] @@ same
    ELSE [kind |-> "ok", chain |-> Len(c) + 1, info |-> <<>>,
          hooks |-> DictSet(h, key, Len(c) + 1),
          program |-> Bind(p, shader, name, Len(c) + 1),
          chains |-> Append(c, <<>>)]

\* A faulty _get_hook that records the new chain before it finds out that
\* there is no program to bind it into.
get_hook_record_first(h, p, c, shader, name) ==
    LET key == <<shader, name>>
        same == [hooks |-> h, program |-> p, chains |-> c]
    IN
    IF name \notin HookNames
    THEN [kind |-> "AssertionError", chain |-> 0, info |-> <<>>] @@ same
    ELSE IF key \in DOMAIN h
    THEN [kind |-> "ok", chain |-> h[key], info |-> <<>>] @@ same
    ELSE IF ~p.present
    THEN [kind |-> "NotImplementedError", chain |-> 0, info |-> key,
          hooks |-> DictSet(h, key, Len(c) + 1), program |-> p,
          chains |-> Append(c, <<>>)]
    ELSE [kind |-> "ok", chain |-> Len(c) + 1, info |-> <<>>,
          hooks |-> DictSet(h, key, Len(c) + 1),
          program |-> Bind(p, shader, name, Len(c) + 1),
          chains |-> Append(c, <<>>)]

\* A faulty _get_hook without the check of *name*.
get_hook_unchecked_name(h, p, c, shader, name) ==
    LET key == <<shader, name>>
        same == [hooks |-> h, program |-> p, chains |-> c]
    IN
    IF key \in DOMAIN h
    THEN [kind |-> "ok", chain |-> h[key], info |-> <<>>] @@ same
    ELSE IF ~p.present
    THEN [kind |-> "NotImplementedError", chain |-> 0, info |-> key] @@ same
    ELSE [kind |-> "ok", chain |-> Len(c) + 1, info |-> <<>>,
          hooks |-> DictSet(h, key, Len(c) + 1),
          program |-> Bind(p, shader, name, Len(c) + 1),
          chains |-> Append(c, <<>>)]

\* _get_hook(shader, name) on the registry h, the program p and the heap c of
\* StatementList objects. A new StatementList gets the next unused identity.
\* The NotImplementedError carries the key in its message.
get_hook(h, p, c, shader, name) ==
    LET key == <<shader, name>>
        same == [hooks |-> h, program |-> p, chains |-> c]
    IN
    IF name \notin HookNames
    THEN [kind |-> "AssertionError", chain |-> 0, info |-> <<>>] @@ same
    ELSE IF key \in DOMAIN h
    THEN [kind |-> "ok", chain |-> h[key], info |-> <<>>] @@ same
    ELSE IF ~p.present
    THEN [kind |-> "NotImplementedError", chain |-> 0, info |-> key] @@ same
    ELSE LET hook == Len(c) + 1
         IN  [kind |-> "ok", chain |-> hook, info |-> <<>>,
              hooks |-> DictSet(h, key, hook),
              program |-> Bind(p, shader, name, hook),
              chains |-> Append(c, <<>>)]

GetHook(v, shader, name) ==
    LET r == get_hook(hooks[v], program[v], chains, shader, name) IN
    /\ Len(r.chains) <= MaxChains
    /\ hooks' = [hooks EXCEPT ![v] = r.hooks]
    /\ program' = [program EXCEPT ![v] = r.program]
    /\ chains' = r.chains
    /\ ret' = [Result("_get_hook", v, r.kind) EXCEPT
                   !.key = <<shader, name>>, !.chain = r.chain, !.info = r.info]
    /\ UNCHANGED <<observers, delivered, gloo, visuals, visible, gl_state, filters,
                   nAttach, nDetach, dupAttach, lastOp>>

\* ---------------------------------------------------------------- filters
\* The Filter collaborators: each filter requests one hook and appends one
\* statement (named after the filter) to it when attached. On detachment f1
\* removes its statements from the chain; f2 leaves them in place.
FilterSlot(f) == <<"frag", "post">>
Removing == {"f1"}

\* filter._attach(visual)
filter_attach(f, h, p, c) ==
    LET r == get_hook(h, p, c, FilterSlot(f)[1], FilterSlot(f)[2]) IN
    IF r.kind # "ok" THEN r
    ELSE [r EXCEPT !.chains[r.chain] = Append(@, f)]

\* filter._detach(visual)
filter_detach(f, h, p, c) ==
    LET r == get_hook(h, p, c, FilterSlot(f)[1], FilterSlot(f)[2])
        NotMine(s) == s # f
    IN
    IF r.kind # "ok" \/ f \notin Removing THEN r
    ELSE [r EXCEPT !.chains[r.chain] = SelectSeq(@, NotMine)]

\* The outcome of attach or detach: r is the outcome of the callback (or the
\* untouched registry when no callback ran), S the new attachment set,
\* called the number of callbacks that ran to their end.
Outcome(r, kind, S, called) ==
    [kind |-> kind, info |-> r.info, filters |-> S, called |-> called,
     hooks |-> r.hooks, program |-> r.program, chains |-> r.chains]

Untouched(h, p, c) == [info |-> <<>>, hooks |-> h, program |-> p, chains |-> c]

\* A faulty attach that records the filter before it runs the callback.
attach_add_first(S, f, h, p, c) ==
    LET r == filter_attach(f, h, p, c) IN
    Outcome(r, r.kind, S \cup {f}, IF r.kind = "ok" THEN 1 ELSE 0)

\* A faulty attach that treats a filter that is already attached as done and
\* does not run its callback again.
attach_skip_member(S, f, h, p, c) ==
    LET r == filter_attach(f, h, p, c) IN
    IF f \in S THEN Outcome(Untouched(h, p, c), "ok", S, 0)
    ELSE IF r.kind # "ok" THEN Outcome(r, r.kind, S, 0)
    ELSE Outcome(r, "ok", S \cup {f}, 1)

\* attach(filter) with self._filters = S: the callback runs first; the filter
\* is added to the set only when the callback returns.
attach(S, f, h, p, c) ==
    LET r == filter_attach(f, h, p, c) IN
    IF r.kind # "ok" THEN Outcome(r, r.kind, S, 0)
    ELSE Outcome(r, "ok", S \cup {f}, 1)

Attach(v, f) ==
    LET r == attach(filters[v], f, hooks[v], program[v], chains) IN
    /\ nAttach[v][f] < MaxAttach
    /\ Len(r.chains) <= MaxChains
    /\ filters' = [filters EXCEPT ![v] = r.filters]
    /\ hooks' = [hooks EXCEPT ![v] = r.hooks]
    /\ program' = [program EXCEPT ![v] = r.program]
    /\ chains' = r.chains
    /\ nAttach' = [nAttach EXCEPT ![v][f] = @ + r.called]
    /\ dupAttach' = [dupAttach EXCEPT ![v][f] =
                         IF r.kind = "ok" /\ f \in filters[v] THEN @ + 1 ELSE @]
    /\ lastOp' = [lastOp EXCEPT ![v][f] = IF r.kind = "ok" THEN "attach" ELSE @]
    /\ ret' = [Result("attach", v, r.kind) EXCEPT !.filter = f, !.info = r.info]
    /\ UNCHANGED <<observers, delivered, gloo, visuals, visible, gl_state, nDetach>>

\* A faulty detach that runs the callback before it removes the filter.
detach_callback_first(S, f, h, p, c) ==
    LET r == filter_detach(f, h, p, c) IN
    IF r.kind # "ok" THEN Outcome(r, r.kind, S, 0)
    ELSE IF f \notin S THEN Outcome(r, "KeyError", S, 1)
    ELSE Outcome(r, "ok", S \ {f}, 1)

\* A faulty detach that removes the filter and never runs its callback.
detach_no_callback(S, f, h, p, c) ==
    IF f \notin S THEN Outcome(Untouched(h, p, c), "KeyError", S, 0)
    ELSE Outcome(Untouched(h, p, c), "ok", S \ {f}, 0)

\* A faulty detach that also forgets the hook the filter wrote to.
detach_drops_hook(S, f, h, p, c) ==
    IF f \notin S THEN Outcome(Untouched(h, p, c), "KeyError", S, 0)
    ELSE LET r == filter_detach(f, h, p, c)
             o == Outcome(r, r.kind, S \ {f}, IF r.kind = "ok" THEN 1 ELSE 0)
         IN  [o EXCEPT !.hooks = DictWithout(r.hooks, FilterSlot(f))]

\* detach(filter) with self._filters = S: set.remove raises KeyError for a
\* non-member, before the callback is reached.
detach(S, f, h, p, c) ==
    IF f \notin S THEN Outcome(Untouched(h, p, c), "KeyError", S, 0)
    ELSE LET r == filter_detach(f, h, p, c) IN
         Outcome(r, r.kind, S \ {f}, IF r.kind = "ok" THEN 1 ELSE 0)

Detach(v, f) ==
    LET r == detach(filters[v], f, hooks[v], program[v], chains) IN
    /\ filters' = [filters EXCEPT ![v] = r.filters]
    /\ hooks' = [hooks EXCEPT ![v] = r.hooks]
    /\ program' = [program EXCEPT ![v] = r.program]
    /\ chains' = r.chains
    /\ nDetach' = [nDetach EXCEPT ![v][f] = @ + r.called]
    /\ lastOp' = [lastOp EXCEPT ![v][f] = IF r.kind = "ok" THEN "detach" ELSE @]
    /\ ret' = [Result("detach", v, r.kind) EXCEPT !.filter = f, !.info = r.info]
    /\ UNCHANGED <<observers, delivered, gloo, visuals, visible, gl_state, nAttach, dupAttach>>

\* ----------------------------------------------------------------- events
\* The update emitter of self.events (vispy.util.event): callbacks connect
\* and disconnect; an emission runs every connected callback once, in the
\* order of connection, before it returns.
emit(obs) == obs

Connect(v, o) ==
    /\ \A i \in 1..Len(observers[v]) : observers[v][i] # o
    /\ observers' = [observers EXCEPT ![v] = Append(@, o)]
    /\ ret' = [Result("connect", v, "ok") EXCEPT !.observer = o]
    /\ UNCHANGED <<delivered, gloo, visuals, visible, gl_state, filters, hooks,
                   program, chains, nAttach, nDetach, dupAttach, lastOp>>

Disconnect(v, o) ==
    LET Other(x) == x # o IN
    /\ \E i \in 1..Len(observers[v]) : observers[v][i] = o
    /\ observers' = [observers EXCEPT ![v] = SelectSeq(@, Other)]
    /\ ret' = [Result("disconnect", v, "ok") EXCEPT !.observer = o]
    /\ UNCHANGED <<delivered, gloo, visuals, visible, gl_state, filters, hooks,
                   program, chains, nAttach, nDetach, dupAttach, lastOp>>

\* A faulty update that emits the event twice.
update_twice(obs) == emit(obs) \o emit(obs)

\* update(): one call of self.events.update(); the result is the sequence of
\* observers run before the call returns.
update(obs) == emit(obs)

Update(v) ==
    /\ delivered' = [delivered EXCEPT ![v] = update(observers[v])]
    /\ ret' = Result("update", v, "ok")
    /\ UNCHANGED <<observers, gloo, visuals, visible, gl_state, filters, hooks,
                   program, chains, nAttach, nDetach, dupAttach, lastOp>>

\* _update(): the internal entry, one call of self.events.update() as well.
update_internal(obs) == emit(obs)

UpdateInternal(v) ==
    /\ delivered' = [delivered EXCEPT ![v] = update_internal(observers[v])]
    /\ ret' = Result("_update", v, "ok")
    /\ UNCHANGED <<observers, gloo, visuals, visible, gl_state, filters, hooks,
                   program, chains, nAttach, nDetach, dupAttach, lastOp>>

\* ------------------------------------------------------------------- draw
\* A faulty draw that hands the backend the overrides without the preset.
draw_without_preset(g) == <<DictWithout(g, PresetKey)>>

\* draw(transforms): one call gloo.set_state(**self._gl_state); the result is
\* the sequence of keyword dicts handed to set_state.
draw(g) == <<g>>

Draw(v) ==
    /\ gloo' = [gloo EXCEPT ![v] = draw(gl_state[v])]
    /\ ret' = Result("draw", v, "ok")
    /\ UNCHANGED <<observers, delivered, visuals, visible, gl_state, filters,
                   hooks, program, chains, nAttach, nDetach, dupAttach, lastOp>>

\* ----------------------------------------------------------------- bounds
\* A bounds that reports an extent along the x axis (<<>> stands for None).
bounds_x_extent(mode, axis) == IF axis = 0 THEN <<0, 1>> ELSE <<>>

\* bounds(mode, axis): return None.
bounds(mode, axis) == <<>>

Bounds(v, mode, axis) ==
    /\ ret' = [Result("bounds", v, "ok") EXCEPT
                   !.key = <<mode, axis>>, !.value = bounds(mode, axis)]
    /\ UNCHANGED <<observers, delivered, gloo, visuals, visible, gl_state,
                   filters, hooks, program, chains, nAttach, nDetach,
                   dupAttach, lastOp>>

\* ------------------------------------------------------------------- Next
SetGlStateCall == \E v \in visuals, args \in ArgSeqs, kw \in KwMaps :
                      SetGlState(v, args, kw)
UpdateGlStateCall == \E v \in visuals, args \in ArgSeqs, kw \in KwMaps :
                         UpdateGlState(v, args, kw)
MakeProgramStep == \E v \in visuals : MakeProgram(v)
GetHookCall == \E v \in visuals, shader \in Shaders, name \in Names :
                   GetHook(v, shader, name)
AttachCall == \E v \in visuals, f \in Filters : Attach(v, f)
DetachCall == \E v \in visuals, f \in Filters : Detach(v, f)
ConnectCall == \E v \in visuals, o \in Observers : Connect(v, o)
DisconnectCall == \E v \in visuals, o \in Observers : Disconnect(v, o)
UpdateCall == \E v \in visuals : Update(v)
UpdateInternalCall == \E v \in visuals : UpdateInternal(v)
DrawCall == \E v \in visuals : Draw(v)
BoundsCall == \E v \in visuals, mode \in Modes, axis \in Axes :
                  Bounds(v, mode, axis)

Next ==
    \/ SetGlStateCall
    \/ UpdateGlStateCall
    \/ MakeProgramStep
    \/ GetHookCall
    \/ AttachCall
    \/ DetachCall
    \/ ConnectCall
    \/ DisconnectCall
    \/ UpdateCall
    \/ UpdateInternalCall
    \/ DrawCall
    \/ BoundsCall

\* The GL state operations alone, and the hook and filter operations alone.
NextGL ==
    \/ SetGlStateCall
    \/ UpdateGlStateCall

NextHooks ==
    \/ MakeProgramStep
    \/ GetHookCall
    \/ AttachCall
    \/ DetachCall

\* The update event alone.
NextEvents ==
    \/ ConnectCall
    \/ DisconnectCall
    \/ UpdateCall
    \/ UpdateInternalCall

\* One Visual under every kind of operation: the render-state calls set the
\* preset 'a' or merge the override blend='a', and one observer connects.
FramePreset == <<"a">>
FrameOverride == [k \in {"blend"} |-> "a"]
FrameSetGlStateCall == \E v \in visuals : SetGlState(v, FramePreset, EmptyDict)
FrameUpdateGlStateCall == \E v \in visuals : UpdateGlState(v, <<>>, FrameOverride)
FrameConnectCall == \E v \in visuals : Connect(v, "o1")

NextFrame ==
    \/ FrameSetGlStateCall
    \/ FrameUpdateGlStateCall
    \/ MakeProgramStep
    \/ AttachCall
    \/ DetachCall
    \/ FrameConnectCall
    \/ UpdateCall
    \/ DrawCall
    \/ BoundsCall

\* Two Visuals side by side, sharing one filter instance f1: each takes the
\* render-state calls, a direct _get_hook('vert', 'pre') and attach/detach.
InitTwo == InitOf({"v1", "v2"})
TwoGetHookCall == \E v \in visuals : GetHook(v, "vert", "pre")
TwoAttachCall == \E v \in visuals : Attach(v, "f1")
TwoDetachCall == \E v \in visuals : Detach(v, "f1")

NextTwo ==
    \/ FrameSetGlStateCall
    \/ FrameUpdateGlStateCall
    \/ MakeProgramStep
    \/ TwoGetHookCall
    \/ TwoAttachCall
    \/ TwoDetachCall

Spec == Init /\ [][Next]_vars
SpecFrame == Init /\ [][NextFrame]_vars
SpecTwo == InitTwo /\ [][NextTwo]_vars
SpecGL == Init /\ [][NextGL]_vars
SpecHooks == Init /\ [][NextHooks]_vars
SpecEvents == Init /\ [][NextEvents]_vars

\* ==================================================================
\* Properties
\* ==================================================================
\* Every (visual, key) entry of the hook registries.
HookEntries == UNION {{<<v, k>> : k \in DOMAIN hooks[v]} : v \in visuals}

\* The difference between completed _attach and _detach callbacks of f on v.
Pending(v, f) == nAttach[v][f] - nDetach[v][f]

\* ------------------------------------------------------------------ C1
\* C1: on a Visual, every successful _get_hook(shader, name) returns the
\* chain the registry holds under (shader, name); the chain recorded under a
\* key is never replaced or dropped, so every call for a key returns the
\* object the first call created; and every chain ever created is recorded
\* under exactly one key (no second chain is made for a key).
C1_SameChain ==
    /\ [](\A id \in 1..Len(chains) :
            Cardinality({e \in HookEntries : hooks[e[1]][e[2]] = id}) = 1)
    /\ [](ret.op = "_get_hook" /\ ret.kind = "ok"
            => /\ ret.key \in DOMAIN hooks[ret.v]
               /\ hooks[ret.v][ret.key] = ret.chain)
    /\ [][\A v \in visuals : \A k \in DOMAIN hooks[v] :
            k \in DOMAIN hooks'[v] /\ hooks'[v][k] = hooks[v][k]]_vars

\* A call returned the first chain after a second one had been created.
C1_Witness ==
    /\ ret.op = "_get_hook" /\ ret.kind = "ok"
    /\ Len(chains) = 2 /\ ret.chain = 1

\* ------------------------------------------------------------------ C2
\* C2: a step _get_hook(shader, name) with name in ('pre', 'post') and no
\* chain recorded for the key: without a program it raises
\* NotImplementedError carrying (shader, name) and leaves registry, program
\* and chains as they were; with a program (also after earlier refusals) it
\* returns a new, empty chain, records it under the key and, for the vert and
\* frag shaders, binds it into the program's slot.
C2_NoProgram ==
    [][(/\ ret'.op = "_get_hook"
        /\ ret'.key[2] \in HookNames
        /\ ret'.key \notin DOMAIN hooks[ret'.v])
       => LET v == ret'.v
              shader == ret'.key[1]
              name == ret'.key[2]
          IN  IF ~program[v].present
              THEN /\ ret'.kind = NotSupported
                   /\ ret'.info = <<shader, name>>
                   /\ hooks' = hooks /\ program' = program /\ chains' = chains
              ELSE /\ ret'.kind = "ok"
                   /\ ret'.chain \notin 1..Len(chains)
                   /\ ret'.chain \in 1..Len(chains')
                   /\ chains'[ret'.chain] = <<>>
                   /\ \A id \in 1..Len(chains) : chains'[id] = chains[id]
                   /\ DOMAIN hooks'[v] = DOMAIN hooks[v] \cup {ret'.key}
                   /\ hooks'[v][ret'.key] = ret'.chain
                   /\ shader = "vert" => program'[v].vert[name] = ret'.chain
                   /\ shader = "frag" => program'[v].frag[name] = ret'.chain
      ]_vars

\* The request for (vert, pre) was refused on a Visual without a program.
C2_Witness ==
    /\ ret.op = "_get_hook" /\ ret.kind = NotSupported
    /\ ret.info = <<"vert", "pre">>
    /\ ~program[ret.v].present
    /\ hooks[ret.v] = EmptyDict /\ chains = <<>>

\* ------------------------------------------------------------------ C3
\* C3: _get_hook with a name outside ('pre', 'post') always fails with
\* AssertionError and changes neither the registry, nor the program's
\* slots, nor any chain.
C3_BadName ==
    /\ [](ret.op = "_get_hook" /\ ret.key[2] \notin HookNames
            => ret.kind \in InvalidArgument)
    /\ [][ret'.op = "_get_hook" /\ ret'.key[2] \notin HookNames
            => hooks' = hooks /\ program' = program /\ chains' = chains]_vars

\* The bad name was refused on a Visual that has a program and a chain for
\* the same shader.
C3_Witness ==
    /\ ret.op = "_get_hook" /\ ret.key = <<"frag", "mid">>
    /\ ret.kind = "AssertionError"
    /\ program[ret.v].present
    /\ <<"frag", "post">> \in DOMAIN hooks[ret.v]

\* ------------------------------------------------------------------ C4
\* C4: update_gl_state with two or more positional values fails with
\* TypeError and the GL state is what it was before the call.
C4_TooManyArgs ==
    ret.op = "update_gl_state" /\ Len(ret.args) >= 2
        => ret.kind \in InvalidArgument /\ gl_state[ret.v] = ret.before

\* A refused call whose first positional value and keyword arguments both
\* differ from the stored state.
C4_Witness ==
    /\ ret.op = "update_gl_state" /\ Len(ret.args) >= 2
    /\ ret.kind = "TypeError"
    /\ ret.args[1] # gl_state[ret.v][PresetKey]
    /\ \E k \in DOMAIN ret.kwargs :
          k \notin DOMAIN gl_state[ret.v] \/ gl_state[ret.v][k] # ret.kwargs[k]

\* ------------------------------------------------------------------ C5
\* C5: update_gl_state with at most one positional value and keyword
\* arguments M succeeds; afterwards every key of M has its value in M, and
\* every other key (but the preset when a positional preset was given) is
\* present exactly when it was before, with the value it had before. Hence
\* over a sequence of updates a key has the value of the latest update that
\* named it.
C5_Merge ==
    ret.op = "update_gl_state" /\ Len(ret.args) <= 1
        => LET g == gl_state[ret.v]
               b == ret.before
               M == ret.kwargs
           IN  /\ ret.kind = "ok"
               /\ DOMAIN g \subseteq Keys
               /\ \A k \in DOMAIN M : k \in DOMAIN g /\ g[k] = M[k]
               /\ \A k \in Keys \ DOMAIN M :
                     (k = PresetKey /\ Len(ret.args) = 1)
                     \/ /\ (k \in DOMAIN g) = (k \in DOMAIN b)
                        /\ k \in DOMAIN b => g[k] = b[k]

\* An update overwrote one option with another value and kept an option it
\* did not name.
C5_Witness ==
    /\ ret.op = "update_gl_state" /\ ret.kind = "ok"
    /\ \E k \in (DOMAIN ret.kwargs) \cap (DOMAIN ret.before) :
          ret.before[k] # ret.kwargs[k] /\ gl_state[ret.v][k] = ret.kwargs[k]
    /\ \E k \in (DOMAIN ret.before) \ (DOMAIN ret.kwargs) :
          k # PresetKey /\ gl_state[ret.v][k] = ret.before[k]

\* ------------------------------------------------------------------ C6
\* C6: after update_gl_state with one positional preset p the stored preset
\* is p, whatever keyword arguments came with it.
C6_PositionalPresetWins ==
    ret.op = "update_gl_state" /\ Len(ret.args) = 1
        => ret.kind = "ok" /\ gl_state[ret.v][PresetKey] = ret.args[1]

\* ------------------------------------------------------------------ C7
\* C7: after a successful set_gl_state the GL state holds exactly the
\* supplied overrides and the preset entry, the preset being the supplied one
\* and None when none was given; nothing of the earlier state is left.
C7_SetReplaces ==
    ret.op = "set_gl_state" /\ ret.kind = "ok"
        => LET g == gl_state[ret.v]
               kw == ret.kwargs
           IN  /\ DOMAIN g = (DOMAIN kw) \cup {PresetKey}
               /\ \A k \in (DOMAIN kw) \ {PresetKey} : g[k] = kw[k]
               /\ g[PresetKey] = IF Len(ret.args) = 1 THEN ret.args[1]
                                 ELSE IF PresetKey \in DOMAIN kw
                                 THEN kw[PresetKey]
                                 ELSE "None"

\* set_gl_state without a preset dropped an option and a preset that the
\* earlier state had.
C7_Witness ==
    /\ ret.op = "set_gl_state" /\ ret.kind = "ok"
    /\ ret.args = <<>> /\ PresetKey \notin DOMAIN ret.kwargs
    /\ ret.before[PresetKey] # "None"
    /\ gl_state[ret.v][PresetKey] = "None"
    /\ \E k \in DOMAIN ret.before : k \notin DOMAIN gl_state[ret.v]

\* ------------------------------------------------------------------ C8
\* C8: detach of a filter that is not attached fails with KeyError, runs no
\* _detach callback and leaves the attachment set, the registry, the program
\* and every chain unchanged.
C8_DetachNonMember ==
    [][ret'.op = "detach" /\ ret'.filter \notin filters[ret'.v]
        => /\ ret'.kind = NotFound
           /\ nDetach' = nDetach
           /\ filters' = filters
           /\ hooks' = hooks /\ program' = program /\ chains' = chains]_vars

\* A detach was refused while another filter was attached and a chain held
\* statements.
C8_Witness ==
    /\ ret.op = "detach" /\ ret.kind = NotFound
    /\ ret.filter \notin filters[ret.v]
    /\ filters[ret.v] # {}
    /\ \E id \in 1..Len(chains) : chains[id] # <<>>

SlotChain(h, c, f) ==
    IF FilterSlot(f) \in DOMAIN h THEN c[h[FilterSlot(f)]] ELSE <<>>

CountOf(seq, f) == Cardinality({i \in 1..Len(seq) : seq[i] = f})

\* C11: every successful attach(f) leaves the chain of f's slot equal to
\* what it held before with f's statement added at the end, and every other
\* chain as it was: statements stay in the order of the attach calls. Until
\* a filter is detached the chain holds one statement per completed _attach
\* callback, duplicates included.
C11_AttachOrder ==
    /\ [][ret'.op = "attach" /\ ret'.kind = "ok"
            => LET v == ret'.v
                   f == ret'.filter
               IN  /\ FilterSlot(f) \in DOMAIN hooks'[v]
                   /\ SlotChain(hooks'[v], chains', f)
                          = Append(SlotChain(hooks[v], chains, f), f)
                   /\ \A id \in 1..Len(chains) :
                         id # hooks'[v][FilterSlot(f)] => chains'[id] = chains[id]
       ]_vars
    /\ [](\A v \in visuals :
            (\A g \in Filters : nDetach[v][g] = 0)
            => \A f \in Filters :
                  CountOf(SlotChain(hooks[v], chains, f), f) = nAttach[v][f])

\* f2, f1 and f2 again were attached, in this order, to the same slot.
C11_Witness ==
    \E v \in visuals :
        /\ filters[v] = {"f1", "f2"}
        /\ SlotChain(hooks[v], chains, "f1") = <<"f2", "f1", "f2">>
        /\ SlotChain(hooks[v], chains, "f2") = <<"f2", "f1", "f2">>

\* ----------------------------------------------------------------- C17
\* The chain bound in program p at the slot of (shader, name); 0 when the
\* program has no chain there, as for every shader but vert and frag.
SlotOf(p, key) ==
    IF key[1] = "vert" THEN p.vert[key[2]]
    ELSE IF key[1] = "frag" THEN p.frag[key[2]]
    ELSE 0

\* C17: every chain the registry records under (shader, name) is the chain
\* bound in the program at that shader's slot, for every shader value that
\* _get_hook accepts.
C17_RecordedIsBound ==
    \A v \in visuals : \A k \in DOMAIN hooks[v] :
        SlotOf(program[v], k) = hooks[v][k]

\* ----------------------------------------------------------------- C18
\* C18: when the _attach callback fails, attach fails with the callback's
\* error (here the NotImplementedError of its _get_hook request), runs no
\* further step and leaves the attachment set and the registry as they
\* were; a detach of that filter right after it fails with KeyError.
C18_FailedAttach ==
    /\ [][ret'.op = "attach" /\ ret'.kind # "ok"
            => /\ ret'.kind = NotSupported
               /\ ret'.info = FilterSlot(ret'.filter)
               /\ filters' = filters
               /\ nAttach' = nAttach
               /\ hooks' = hooks /\ program' = program /\ chains' = chains
       ]_vars
    /\ [][(/\ ret.op = "attach" /\ ret.kind # "ok"
           /\ ret.filter \notin filters[ret.v]
           /\ ret'.op = "detach" /\ ret'.v = ret.v /\ ret'.filter = ret.filter)
            => ret'.kind = NotFound /\ filters' = filters]_vars

\* An attach of f1 failed on a Visual without a program; f1 is not attached.
C18_Witness ==
    /\ ret.op = "attach" /\ ret.filter = "f1"
    /\ ret.kind = NotSupported
    /\ ret.info = <<"frag", "post">>
    /\ "f1" \notin filters[ret.v]

\* ----------------------------------------------------------------- C12
\* C12: when update() or _update() returns, the signal has been delivered
\* to every observer registered at the call, once each, in registration
\* order; no other operation delivers anything afterwards.
C12_DeliveredToAll ==
    /\ [](ret.op \in {"update", "_update"}
            => delivered[ret.v] = observers[ret.v])
    /\ [][ret'.op \notin {"update", "_update"} => delivered' = delivered]_vars

\* update() returned with o2 registered before o1: o2 ran first, then o1.
C12_Witness ==
    /\ ret.op = "update"
    /\ observers[ret.v] = <<"o2", "o1">>
    /\ delivered[ret.v] = <<"o2", "o1">>

\* ----------------------------------------------------------------- C20
\* C20: after any sequence of set_gl_state and update_gl_state calls, failed
\* ones included, the dict holds the 'preset' key, so the keyword
\* arguments draw passes to gloo.set_state include preset.
C20_PresetKept ==
    \A v \in visuals :
        /\ PresetKey \in DOMAIN gl_state[v]
        /\ \A i \in 1..Len(draw(gl_state[v])) :
              PresetKey \in DOMAIN draw(gl_state[v])[i]

\* set_gl_state without a preset replaced a dict whose preset was 'a': the
\* key is still there, its value None again.
C20_Witness ==
    /\ ret.op = "set_gl_state" /\ ret.kind = "ok"
    /\ ret.args = <<>> /\ PresetKey \notin DOMAIN ret.kwargs
    /\ ret.kwargs # EmptyDict
    /\ ret.before[PresetKey] = "a"
    /\ gl_state[ret.v][PresetKey] = "None"

\* ----------------------------------------------------------------- C13
\* C13: draw passes the current dict, preset entry included, to
\* gloo.set_state in one call, and changes nothing else: the dict, the
\* hooks, the program, the attached filters and the visible flag stay as
\* they were and no observer is notified.
C13_DrawAppliesState ==
    /\ [](ret.op = "draw" => gloo[ret.v] = <<gl_state[ret.v]>>)
    /\ [][ret'.op = "draw"
            => /\ gloo'[ret'.v] = <<gl_state[ret'.v]>>
               /\ UNCHANGED <<gl_state, hooks, program, chains, filters,
                              visible, observers, delivered>>
       ]_vars

\* draw ran on a Visual with a preset, an override, an attached filter and an
\* observer that was notified earlier.
C13_Witness ==
    /\ ret.op = "draw"
    /\ gloo[ret.v] = <<gl_state[ret.v]>>
    /\ gl_state[ret.v] = DictSet(FrameOverride, PresetKey, "a")
    /\ filters[ret.v] # {}
    /\ delivered[ret.v] # <<>>

\* ----------------------------------------------------------------- C14
\* C14: bounds returns None for every mode and axis, whatever filters are
\* attached, hooks recorded or render state set, and changes no state.
C14_BoundsNone ==
    /\ [](/\ \A mode \in Modes, axis \in Axes : bounds(mode, axis) = <<>>
          /\ ret.op = "bounds" => ret.value = <<>>)
    /\ [][ret'.op = "bounds"
            => UNCHANGED <<visuals, visible, gl_state, filters, hooks, program,
                           chains, nAttach, nDetach, dupAttach, lastOp,
                           observers, delivered, gloo>>
       ]_vars

\* bounds('mouse', 2) was asked of a Visual with an attached filter, a
\* recorded hook and an override in its render state.
C14_Witness ==
    /\ ret.op = "bounds" /\ ret.key = <<"mouse", 2>> /\ ret.value = <<>>
    /\ filters[ret.v] # {}
    /\ DOMAIN hooks[ret.v] # {}
    /\ "blend" \in DOMAIN gl_state[ret.v]

\* ----------------------------------------------------------------- C19
\* C19: no operation removes or replaces a recorded hook; a chain's
\* contents change only in an attach or detach step, by what the filter's
\* callback does (one statement appended, or the filter's own statements
\* removed by a filter that cleans up); the detach of a filter that does
\* not clean up leaves every chain as it was.
C19_HooksPersist ==
    /\ [][\A v \in visuals : \A k \in DOMAIN hooks[v] :
              k \in DOMAIN hooks'[v] /\ hooks'[v][k] = hooks[v][k]]_vars
    /\ [][\A id \in 1..Len(chains) :
              /\ id \in 1..Len(chains')
              /\ chains'[id] # chains[id]
                    => \/ /\ ret'.op = "attach" /\ ret'.kind = "ok"
                          /\ chains'[id] = Append(chains[id], ret'.filter)
                       \/ /\ ret'.op = "detach" /\ ret'.kind = "ok"
                          /\ ret'.filter \in Removing
                          /\ chains'[id] = SelectSeq(chains[id],
                                               LAMBDA s : s # ret'.filter)
       ]_vars
    /\ [][ret'.op = "detach" /\ ret'.filter \notin Removing
            => chains' = chains]_vars

\* f2 was detached: it is no longer attached, its hook is still recorded and
\* its statement is still in the chain.
C19_Witness ==
    /\ ret.op = "detach" /\ ret.kind = "ok" /\ ret.filter = "f2"
    /\ "f2" \notin filters[ret.v]
    /\ FilterSlot("f2") \in DOMAIN hooks[ret.v]
    /\ CountOf(SlotChain(hooks[ret.v], chains, "f2"), "f2") > 0

\* ----------------------------------------------------------------- C15
\* C15: a call on one Visual leaves every other Visual's hooks, the contents
\* of their chains, their program, their attached filters and their
\* render state as they were.
C15_PerInstance ==
    [][\A w \in visuals \ {ret'.v} :
          /\ hooks'[w] = hooks[w]
          /\ \A k \in DOMAIN hooks[w] : chains'[hooks[w][k]] = chains[hooks[w][k]]
          /\ program'[w] = program[w]
          /\ filters'[w] = filters[w]
          /\ gl_state'[w] = gl_state[w]
      ]_vars

\* set_gl_state ran on v1 while v2 had an attached filter, a recorded hook
\* with a statement in it and a render state of its own.
C15_Witness ==
    /\ ret.op = "set_gl_state" /\ ret.kind = "ok" /\ ret.v = "v1"
    /\ gl_state["v1"] = DictSet(EmptyDict, PresetKey, "a")
    /\ gl_state["v2"] = DictSet(FrameOverride, PresetKey, "None")
    /\ filters["v1"] = {} /\ filters["v2"] = {"f1"}
    /\ DOMAIN hooks["v1"] = {}
    /\ SlotChain(hooks["v2"], chains, "f1") = <<"f1">>

\* ----------------------------------------------------------------- C16
\* C16: no filter is in the attached sets of two different Visuals.
C16_OneVisualPerFilter ==
    \A v \in visuals, w \in visuals :
        v # w => filters[v] \cap filters[w] = {}

====
